---- MODULE Spec2Model ----
(***************************************************************************)
(* A model of rich_prompt (src/main.rs): the gateway that renders a system *)
(* message from a template, sends one chat-completion request to a client  *)
(* picked at random from the pool, and relays the answer as an HTTP        *)
(* response.                                                               *)
(*                                                                         *)
(* Text is modelled as sequences of one-character strings.  The identifier *)
(* `style` that strfmt! binds is the one-letter name "s" in this alphabet. *)
(***************************************************************************)
EXTENDS Naturals, Sequences, FiniteSets

\* ---------------------------------------------------------------- bounds
MaxReq == 2
MaxKeys == 2
MaxChoices == 2
MaxTemplateLen == 5

\* ---------------------------------------------------------- Option/Result
None == <<>>
Some(v) == <<v>>

Ok(v) == [ok |-> TRUE, value |-> v, error |-> ""]
Err(e) == [ok |-> FALSE, value |-> <<>>, error |-> e]

RECURSIVE SeqsUpTo(_, _)
SeqsUpTo(S, n) ==
    IF n = 0 THEN {<<>>}
    ELSE LET shorter == SeqsUpTo(S, n - 1)
         IN  shorter \cup {Append(q, x) : q \in shorter, x \in S}

\* ------------------------------------------------------------ input sets
Alphabet == {"a", "s", "{", "}"}
Templates == SeqsUpTo(Alphabet, MaxTemplateLen)

\* the templates of the pipeline specification: one with the placeholder,
\* one that strfmt rejects
PipelineTemplates == {<<"{", "s", "}">>, <<"{">>}
SystemTemplates == {<<"a">>, <<"{", "{">>}

Styles == {None, Some(<<"p">>)}
Prompts == {<<"h">>}
RenderStyles == {None, Some(<<"p">>), Some(<<"{">>)}
RenderPrompts == {<<"h">>, <<"{", "s", "}">>}

Contents == {None, Some("x")}
ChoiceLists == SeqsUpTo([content : Contents], MaxChoices)
UpstreamResults == {Err("upstream unreachable")} \cup {Ok(cs) : cs \in ChoiceLists}
RenderResults == {Err("upstream unreachable"), Ok(<<[content |-> Some("x")]>>)}

\* the configuration file could not be read or parsed
Unreadable == [readable |-> FALSE, system_template |-> <<>>,
               system_with_style_template |-> <<>>, api_keys |-> <<>>]
Config(sys, sty, n) ==
    [readable |-> TRUE, system_template |-> sys,
     system_with_style_template |-> sty, api_keys |-> [i \in 1..n |-> i]]

\* ------------------------------------------------------------- messages
FormatError == "failed to format system_with_style_template"
ChoicesEmpty == "choices is empty"
ContentEmpty == "content is empty"

INTERNAL_SERVER_ERROR == 500
OK == 200

\* ----------------------------------------------------------------- strfmt
StyleKey == <<"s">>

\* The strfmt crate's strfmt_map, which strfmt! expands to: its scan of the
\* format string, one character per step.  "{{" and "}}" write one brace,
\* "{key}" writes the value bound to key, anything else with a brace is an
\* error.  `out` is the
\* text written so far, `reading_fmt` whether an opening brace is pending,
\* `opening_brace` the position of that brace, `closing_brace` whether a
\* single closing brace is pending.
RECURSIVE strfmt_map(_, _, _, _, _, _, _)
strfmt_map(fmtstr, vars, i, out, reading_fmt, opening_brace, closing_brace) ==
    IF i > Len(fmtstr)
    THEN IF closing_brace THEN Err("Single '}' encountered in format string")
         ELSE IF reading_fmt THEN Err("Expected '}' before end of string")
         ELSE Ok(out)
    ELSE LET c == fmtstr[i] IN
         IF c = "{"
         THEN IF reading_fmt /\ opening_brace = i - 1
              THEN strfmt_map(fmtstr, vars, i + 1, Append(out, c), FALSE,
                              opening_brace, closing_brace)
              ELSE IF ~reading_fmt
              THEN strfmt_map(fmtstr, vars, i + 1, out, TRUE, i, closing_brace)
              ELSE Err("extra { found")
         ELSE IF c = "}"
         THEN IF ~reading_fmt /\ ~closing_brace
              THEN strfmt_map(fmtstr, vars, i + 1, out, reading_fmt,
                              opening_brace, TRUE)
              ELSE IF closing_brace
              THEN strfmt_map(fmtstr, vars, i + 1, Append(out, c), reading_fmt,
                              opening_brace, FALSE)
              ELSE LET key == SubSeq(fmtstr, opening_brace + 1, i - 1) IN
                   IF key \in DOMAIN vars
                   THEN strfmt_map(fmtstr, vars, i + 1, out \o vars[key], FALSE,
                                   opening_brace, closing_brace)
                   ELSE Err("Invalid key")
         ELSE IF closing_brace
         THEN Err("Single '}' encountered in format string")
         ELSE IF ~reading_fmt
         THEN strfmt_map(fmtstr, vars, i + 1, Append(out, c), reading_fmt,
                         opening_brace, closing_brace)
         ELSE strfmt_map(fmtstr, vars, i + 1, out, reading_fmt,
                         opening_brace, closing_brace)

\* ----------------------------------------------------------- text helpers
Placeholder == <<"{">> \o StyleKey \o <<"}">>
StartsWith(t, p) == Len(t) >= Len(p) /\ SubSeq(t, 1, Len(p)) = p
Drop(t, n) == SubSeq(t, n + 1, Len(t))
ContainsPlaceholder(t) ==
    \E i \in 1..Len(t) : StartsWith(Drop(t, i - 1), Placeholder)

\* the template with each occurrence of the placeholder text replaced by s
\* and every other character kept
RECURSIVE ReplacePlaceholder(_, _)
ReplacePlaceholder(t, s) ==
    IF t = <<>> THEN <<>>
    ELSE IF StartsWith(t, Placeholder)
    THEN s \o ReplacePlaceholder(Drop(t, Len(Placeholder)), s)
    ELSE <<t[1]>> \o ReplacePlaceholder(Drop(t, 1), s)

\* a formatter that insists on a placeholder to fill
strfmt_require_placeholder(fmtstr, style) ==
    IF ~ContainsPlaceholder(fmtstr) THEN Err("no placeholder")
    ELSE strfmt_map(fmtstr, [k \in {StyleKey} |-> style], 1, <<>>, FALSE, 0, FALSE)

\* a formatter that is a plain text replacement of the placeholder
strfmt_replace_only(fmtstr, style) == Ok(ReplacePlaceholder(fmtstr, style))

\* strfmt!(&template, style): the one variable `style` bound to its value
strfmt(fmtstr, style) ==
    strfmt_map(fmtstr, [k \in {StyleKey} |-> style], 1, <<>>, FALSE, 0, FALSE)

\* -------------------------------------------------------------- handler
\* the system message: the plain template verbatim, or the style template
\* formatted with the style; any strfmt error becomes the one message
Render(ctx, style) ==
    IF style = None
    THEN Ok(ctx.system_template)
    ELSE LET r == strfmt(ctx.system_with_style_template, style[1]) IN
         IF r.ok THEN r ELSE Err(FormatError)

\* the fixed-shape request; every builder field is set, so build() returns Ok
BuildRequest(system, prompt) ==
    Ok([max_tokens |-> 512,
        model |-> "gpt-3.5-turbo",
        messages |-> <<[role |-> "system", content |-> system],
                       [role |-> "user", content |-> prompt]>>,
        top_p |-> 0])

\* a range that takes its upper end in
GenRange_inclusive(low, high) == low..high

\* rand's gen_range(low..high): the half-open range; empty when low >= high
GenRange(low, high) == {i \in low..high : i < high}

\* Vec::pop: the last element, if any
Pop(choices) ==
    IF choices = <<>> THEN None ELSE Some(choices[Len(choices)])

\* an extraction that takes a missing content for an empty one
Extract_default_content(res) ==
    IF ~res.ok THEN Err(res.error)
    ELSE IF res.value = <<>> THEN Err(ChoicesEmpty)
    ELSE LET content == res.value[Len(res.value)].content IN
         Ok(IF content = None THEN "" ELSE content[1])

\* what the handler makes of the upstream's answer
Extract(res) ==
    IF ~res.ok THEN Err(res.error)
    ELSE LET choice == Pop(res.value) IN
         IF choice = None THEN Err(ChoicesEmpty)
         ELSE IF choice[1].content = None THEN Err(ContentEmpty)
         ELSE Ok(choice[1].content[1])

\* a match that leaves the status of the error response as it was built
Respond_status_unset(fut) ==
    [status |-> OK, body |-> IF fut.ok THEN fut.value ELSE fut.error]

\* the match on the future's result
Respond(fut) ==
    IF fut.ok THEN [status |-> OK, body |-> fut.value]
    ELSE [status |-> INTERNAL_SERVER_ERROR, body |-> fut.error]

\* the context serve builds: one client per key, in the configured order
MakeContext(c) ==
    [openai_clients |-> [i \in 1..Len(c.api_keys) |-> [api_key |-> c.api_keys[i]]],
     system_template |-> c.system_template,
     system_with_style_template |-> c.system_with_style_template]

NoContext == [openai_clients |-> <<>>, system_template |-> <<>>,
              system_with_style_template |-> <<>>]

\* ------------------------------------------------------------------ state
VARIABLES
    config,     \* the configuration file
    phase,      \* "start", "listening", or "exited" (serve returned an error)
    ctx,        \* the shared Context
    req,        \* per request: where its handler is, and the request body
    outbound,   \* per request: the upstream call in flight, if any
    calls,      \* per request: how many upstream calls were made for it
    result,     \* per request: what the upstream returned, if it has
    response    \* per request: the HTTP response, if one was produced

vars == <<config, phase, ctx, req, outbound, calls, result, response>>

Requests == 1..MaxReq

Idle == [pc |-> "idle", style |-> None, prompt |-> <<>>]

InitWith(sysTemplates, styleTemplates, keyCounts) ==
    /\ config \in {Unreadable} \cup
                  {Config(sys, sty, n) : sys \in sysTemplates,
                                         sty \in styleTemplates,
                                         n \in keyCounts}
    /\ phase = "start"
    /\ ctx = NoContext
    /\ req = [r \in Requests |-> Idle]
    /\ outbound = [r \in Requests |-> None]
    /\ calls = [r \in Requests |-> 0]
    /\ result = [r \in Requests |-> None]
    /\ response = [r \in Requests |-> None]

\* serve: read the configuration, build the context, listen
serve ==
    /\ phase = "start"
    /\ IF ~config.readable
       THEN /\ phase' = "exited"
            /\ ctx' = ctx
       ELSE /\ ctx' = MakeContext(config)
            /\ phase' = "listening"
    /\ UNCHANGED <<config, req, outbound, calls, result, response>>

\* a handler that picks its client and sends before it looks at the render
rich_prompt_send_first(r, style, prompt) ==
    /\ phase = "listening"
    /\ req[r].pc = "idle"
    /\ \A q \in Requests : q < r => req[q].pc # "idle"
    /\ ctx.openai_clients # <<>>
    /\ LET system == Render(ctx, style)
           request == BuildRequest(system.value, prompt)
       IN  \E i \in GenRange(0, Len(ctx.openai_clients)) :
               /\ calls' = [calls EXCEPT ![r] = calls[r] + 1]
               /\ IF system.ok
                  THEN /\ req' = [req EXCEPT ![r] = [pc |-> "awaiting", style |-> style,
                                                     prompt |-> prompt]]
                       /\ outbound' = [outbound EXCEPT ![r] =
                                          Some([client |-> i, request |-> request.value])]
                       /\ UNCHANGED response
                  ELSE /\ req' = [req EXCEPT ![r] = [pc |-> "responded", style |-> style,
                                                     prompt |-> prompt]]
                       /\ response' = [response EXCEPT ![r] = Some(Respond(system))]
                       /\ UNCHANGED outbound
    /\ UNCHANGED <<config, phase, ctx, result>>

\* rich_prompt up to the await of the upstream call: render, build, pick a
\* client, send.  A render or build error answers at once; an empty pool
\* panics in gen_range: the panic unwinds the task serving the connection, the
\* request gets no response and the server goes on listening.
rich_prompt(r, style, prompt) ==
    /\ phase = "listening"
    /\ req[r].pc = "idle"
    /\ \A q \in Requests : q < r => req[q].pc # "idle"
    /\ LET system == Render(ctx, style)
           request == BuildRequest(system.value, prompt)
           clients == ctx.openai_clients
           answered(fut) ==
               /\ req' = [req EXCEPT ![r] = [pc |-> "responded", style |-> style,
                                             prompt |-> prompt]]
               /\ response' = [response EXCEPT ![r] = Some(Respond(fut))]
               /\ UNCHANGED <<outbound, calls>>
       IN  IF ~system.ok THEN answered(system)
           ELSE IF ~request.ok THEN answered(request)
           ELSE IF GenRange(0, Len(clients)) = {}
           THEN /\ req' = [req EXCEPT ![r] = [pc |-> "panicked", style |-> style,
                                              prompt |-> prompt]]
                /\ UNCHANGED <<outbound, calls, response>>
           ELSE \E i \in GenRange(0, Len(clients)) :
                /\ req' = [req EXCEPT ![r] = [pc |-> "awaiting", style |-> style,
                                              prompt |-> prompt]]
                /\ outbound' = [outbound EXCEPT ![r] =
                                   Some([client |-> i, request |-> request.value])]
                /\ calls' = [calls EXCEPT ![r] = calls[r] + 1]
                /\ UNCHANGED response
    /\ UNCHANGED <<config, phase, ctx, result>>

\* a handler that sends the request again when the call fails
rich_prompt_resume_retry(r, res) ==
    /\ req[r].pc = "awaiting"
    /\ IF ~res.ok
       THEN /\ calls' = [calls EXCEPT ![r] = calls[r] + 1]
            /\ UNCHANGED <<req, outbound, result, response>>
       ELSE /\ outbound' = [outbound EXCEPT ![r] = None]
            /\ result' = [result EXCEPT ![r] = Some(res)]
            /\ response' = [response EXCEPT ![r] = Some(Respond(Extract(res)))]
            /\ req' = [req EXCEPT ![r].pc = "responded"]
            /\ UNCHANGED calls
    /\ UNCHANGED <<config, phase, ctx>>

\* a handler that unwraps the extraction instead of answering its error
rich_prompt_resume_unwrap(r, res) ==
    /\ req[r].pc = "awaiting"
    /\ outbound' = [outbound EXCEPT ![r] = None]
    /\ result' = [result EXCEPT ![r] = Some(res)]
    /\ IF Extract(res).ok
       THEN /\ response' = [response EXCEPT ![r] = Some(Respond(Extract(res)))]
            /\ req' = [req EXCEPT ![r].pc = "responded"]
       ELSE /\ req' = [req EXCEPT ![r].pc = "panicked"]
            /\ UNCHANGED response
    /\ UNCHANGED <<config, phase, ctx, calls>>

\* rich_prompt from the await on: the upstream call returns `res`, the
\* handler extracts the content and answers.  Nothing times the call out: a
\* request stays awaiting for as long as the upstream does not return.
rich_prompt_resume(r, res) ==
    /\ req[r].pc = "awaiting"
    /\ outbound' = [outbound EXCEPT ![r] = None]
    /\ result' = [result EXCEPT ![r] = Some(res)]
    /\ response' = [response EXCEPT ![r] = Some(Respond(Extract(res)))]
    /\ req' = [req EXCEPT ![r].pc = "responded"]
    /\ UNCHANGED <<config, phase, ctx, calls>>

\* ---------------------------------------------------------- specifications
\* the pipeline: concurrent requests against every pool size
Init == InitWith({<<"a">>}, PipelineTemplates, 0..MaxKeys)

Next ==
    \/ serve
    \/ \E r \in Requests, style \in Styles, prompt \in Prompts :
          rich_prompt(r, style, prompt)
    \/ \E r \in Requests, res \in UpstreamResults : rich_prompt_resume(r, res)

Spec == Init /\ [][Next]_vars

\* rendering: one request against every template up to MaxTemplateLen
InitRender == InitWith(SystemTemplates, Templates, {0, 1})

NextRender ==
    \/ serve
    \/ \E style \in RenderStyles, prompt \in RenderPrompts :
          rich_prompt(1, style, prompt)
    \/ \E res \in RenderResults : rich_prompt_resume(1, res)

SpecRender == InitRender /\ [][NextRender]_vars

\* ------------------------------------------------- vocabulary of the claims
Handled(r) == req[r].pc # "idle"
Awaiting(r) == req[r].pc = "awaiting"
Responded(r) == req[r].pc = "responded"
Status(r) == response[r][1].status
Body(r) == response[r][1].body

RenderOk(r) == Render(ctx, req[r].style).ok
Returned(r) == result[r] # None
UpstreamOk(r) == Returned(r) /\ result[r][1].ok
Choices(r) == result[r][1].value
TakenChoice(r) == Choices(r)[Len(Choices(r))]
FirstChoice(r) == Choices(r)[1]

CallFailed(r) == Returned(r) /\ ~result[r][1].ok
NoChoices(r) == UpstreamOk(r) /\ Choices(r) = <<>>
NoContent(r) == UpstreamOk(r) /\ Choices(r) # <<>> /\ TakenChoice(r).content = None
AllSucceeded(r) ==
    /\ RenderOk(r)
    /\ UpstreamOk(r)
    /\ Choices(r) # <<>>
    /\ TakenChoice(r).content # None

FailureMessage(r) ==
    IF ~RenderOk(r) THEN FormatError
    ELSE IF CallFailed(r) THEN result[r][1].error
    ELSE IF NoChoices(r) THEN ChoicesEmpty
    ELSE ContentEmpty

\* C1: every response is 200 with the taken choice's content exactly when
\* rendering, the upstream call, choice extraction and content extraction all
\* succeeded, and otherwise 500 with the failure's message; no other status.
C1_ResponseMatchesOutcome ==
    \A r \in Requests :
        response[r] # None =>
            /\ Status(r) \in {OK, INTERNAL_SERVER_ERROR}
            /\ Status(r) = OK <=> AllSucceeded(r)
            /\ AllSucceeded(r) => Body(r) = TakenChoice(r).content[1]
            /\ ~AllSucceeded(r) => Body(r) = FailureMessage(r)

C1_Witness ==
    \E r, q \in Requests :
        /\ Responded(r) /\ Status(r) = OK /\ Body(r) = "x"
        /\ Responded(q) /\ Status(q) = INTERNAL_SERVER_ERROR /\ CallFailed(q)

\* C2: with no credentials configured, serve never listens and no request
\* reaches the handler.
C2_EmptyPoolFailsStartup ==
    (config.readable /\ config.api_keys = <<>>) =>
        /\ phase # "listening"
        /\ \A r \in Requests : ~Handled(r)

\* a per-request failure of one of the listed kinds: template error, upstream
\* call failure, empty choices, missing content
PerRequestFailure(r) ==
    Handled(r) /\ (~RenderOk(r) \/ CallFailed(r) \/ NoChoices(r) \/ NoContent(r))

\* C3: every request that failed for a per-request reason is answered with
\* HTTP 500, the service is still listening with its context intact, and the
\* next request is still accepted by the handler.
C3_FailuresAnsweredServiceAlive ==
    /\ \A r \in Requests :
          PerRequestFailure(r) =>
              /\ Responded(r)
              /\ response[r] # None
              /\ Status(r) = INTERNAL_SERVER_ERROR
    /\ (\E r \in Requests : Handled(r)) => phase = "listening"
    /\ \A r \in Requests :
          (phase = "listening" /\ ~Handled(r) /\ \A q \in Requests : q < r => Handled(q)) =>
              ENABLED (\E style \in Styles, prompt \in Prompts : rich_prompt(r, style, prompt))

C3_Witness ==
    \E r, q \in Requests :
        /\ r < q
        /\ ~RenderOk(r) /\ Responded(r) /\ Status(r) = INTERNAL_SERVER_ERROR
        /\ Responded(q) /\ Status(q) = OK
        /\ phase = "listening"

\* C4 as stated: every request the handler answered made exactly one
\* upstream call.
C4_ExactlyOneCall ==
    \A r \in Requests : Responded(r) => calls[r] = 1

\* C4 as amended: no request ever makes more than one upstream call (no
\* retry); a handled request makes exactly one when its rendering succeeded
\* and the pool is not empty, and none otherwise.
C4_AtMostOneCall ==
    \A r \in Requests :
        /\ calls[r] <= 1
        /\ Handled(r) =>
              (calls[r] = 1 <=> (RenderOk(r) /\ ctx.openai_clients # <<>>))
        /\ ~Handled(r) => calls[r] = 0

C4_Witness ==
    \E r, q \in Requests :
        /\ Responded(r) /\ CallFailed(r) /\ calls[r] = 1
        /\ Responded(q) /\ ~RenderOk(q) /\ calls[q] = 0

\* C5: an upstream answer with no choices is answered 500 "choices is
\* empty", one whose taken choice has no content 500 "content is empty";
\* neither is ever answered 200.
C5_EmptyAnswersAre500 ==
    \A r \in Requests :
        /\ NoChoices(r) =>
              response[r] = Some([status |-> INTERNAL_SERVER_ERROR, body |-> ChoicesEmpty])
        /\ NoContent(r) =>
              response[r] = Some([status |-> INTERNAL_SERVER_ERROR, body |-> ContentEmpty])

C5_Witness ==
    \E r, q \in Requests :
        /\ NoChoices(r) /\ Status(r) = INTERNAL_SERVER_ERROR
        /\ NoContent(q) /\ Status(q) = INTERNAL_SERVER_ERROR

\* C7: the content returned for an upstream answer with one or more choices
\* is the content of the first choice.
C7_FirstChoiceReturned ==
    \A r \in Requests :
        (UpstreamOk(r) /\ Choices(r) # <<>> /\ Status(r) = OK) =>
            Some(Body(r)) = FirstChoice(r).content

\* C9: an upstream call is only ever made after a successful render; a
\* request whose render fails is answered at once, with no client selected
\* and no call made, and what is sent upstream is the rendered message.
C9_RenderBeforeInvoke ==
    \A r \in Requests :
        /\ (calls[r] > 0 \/ outbound[r] # None \/ Returned(r)) => RenderOk(r)
        /\ (Handled(r) /\ ~RenderOk(r)) =>
              /\ Responded(r)
              /\ outbound[r] = None
              /\ calls[r] = 0
              /\ Body(r) = FormatError
        /\ outbound[r] # None =>
              outbound[r][1].request.messages[1].content =
                  Render(ctx, req[r].style).value

C9_Witness ==
    \E r, q \in Requests :
        /\ Responded(r) /\ ~RenderOk(r) /\ calls[r] = 0 /\ outbound[r] = None
        /\ Awaiting(q) /\ RenderOk(q) /\ calls[q] = 1

\* C10: a request whose upstream call has not returned has no response; a
\* request whose call returned is answered whatever the others do, and its
\* call can return while others hang; every selected client index lies in
\* the pool; the context is the one serve built, never changed.
C10_IndependentRequests ==
    /\ \A r \in Requests :
          /\ Awaiting(r) => (response[r] = None /\ ~Returned(r) /\ outbound[r] # None)
          /\ (response[r] # None /\ calls[r] > 0) => Returned(r)
          /\ Returned(r) => (Responded(r) /\ response[r] # None)
          /\ Awaiting(r) =>
                ENABLED (\E res \in UpstreamResults : rich_prompt_resume(r, res))
          /\ outbound[r] # None =>
                /\ outbound[r][1].client >= 0
                /\ outbound[r][1].client < Len(ctx.openai_clients)
    /\ phase = "listening" => ctx = MakeContext(config)

C10_Witness ==
    \E r, q \in Requests :
        /\ r < q
        /\ Awaiting(r) /\ response[r] = None
        /\ Responded(q) /\ Returned(q)
        /\ Len(ctx.openai_clients) = MaxKeys

\* ----------------------------------------------- vocabulary of rendering
HasBrace(t) == \E i \in 1..Len(t) : t[i] \in {"{", "}"}
Braces(t) == {i \in 1..Len(t) : t[i] \in {"{", "}"}}

\* the first brace opens a placeholder that is closed before any other brace
\* and names something other than the style
NamesOtherKey(t) ==
    \E i, j \in Braces(t) :
        /\ i < j
        /\ Braces(t) \cap (1..j) = {i, j}
        /\ t[i] = "{" /\ t[j] = "}"
        /\ SubSeq(t, i + 1, j - 1) # StyleKey

\* strfmt rejects these whatever else they hold
Rejected(t) == Cardinality(Braces(t)) = 1 \/ NamesOtherKey(t)

\* a template is well formed when it reads, left to right, as doubled
\* braces, style placeholders and characters that are not braces
RECURSIVE WellFormed(_)
WellFormed(t) ==
    IF t = <<>> THEN TRUE
    ELSE IF StartsWith(t, <<"{", "{">>) \/ StartsWith(t, <<"}", "}">>)
    THEN WellFormed(Drop(t, 2))
    ELSE IF StartsWith(t, Placeholder) THEN WellFormed(Drop(t, Len(Placeholder)))
    ELSE t[1] \notin {"{", "}"} /\ WellFormed(Drop(t, 1))

\* a well-formed template with each placeholder replaced by s and each
\* doubled brace replaced by a single one
RECURSIVE Substituted(_, _)
Substituted(t, s) ==
    IF t = <<>> THEN <<>>
    ELSE IF StartsWith(t, <<"{", "{">>) \/ StartsWith(t, <<"}", "}">>)
    THEN <<t[1]>> \o Substituted(Drop(t, 2), s)
    ELSE IF StartsWith(t, Placeholder)
    THEN s \o Substituted(Drop(t, Len(Placeholder)), s)
    ELSE <<t[1]>> \o Substituted(Drop(t, 1), s)

StyleTemplate == ctx.system_with_style_template
Styled(r) == Handled(r) /\ req[r].style # None
SystemMessage(r) == outbound[r][1].request.messages[1]
TemplateError == Some([status |-> INTERNAL_SERVER_ERROR, body |-> FormatError])

\* C6 as stated: a request with a style, against a style template that holds
\* no placeholder, fails to render and is answered 500 with the template
\* error (read here for a template with some text, served by a pool that is
\* not empty).
C6_NoPlaceholderFails ==
    \A r \in Requests :
        (Styled(r) /\ ~ContainsPlaceholder(StyleTemplate)
             /\ StyleTemplate # <<>> /\ ctx.openai_clients # <<>>) =>
            /\ Responded(r)
            /\ response[r] = TemplateError

\* C6 as amended: a request with a style is answered 500 with the template
\* error when the style template holds a lone brace or a placeholder naming
\* something other than the style, and never when the template is well
\* formed; a template without any brace renders to its own text and the
\* request goes on to client selection and the upstream call.
C6_MalformedTemplateFails ==
    \A r \in Requests :
        Styled(r) =>
            /\ Rejected(StyleTemplate) =>
                  (Responded(r) /\ response[r] = TemplateError /\ calls[r] = 0)
            /\ WellFormed(StyleTemplate) => response[r] # TemplateError
            /\ ~HasBrace(StyleTemplate) =>
                  /\ req[r].pc \in {"awaiting", "responded", "panicked"}
                  /\ req[r].pc = "panicked" <=> ctx.openai_clients = <<>>
                  /\ req[r].pc # "panicked" => calls[r] = 1
                  /\ outbound[r] # None => SystemMessage(r).content = StyleTemplate

C6_Witness ==
    \E r \in Requests :
        /\ Styled(r) /\ Awaiting(r)
        /\ StyleTemplate # <<>> /\ ~HasBrace(StyleTemplate)
        /\ SystemMessage(r).content = StyleTemplate

\* what goes upstream: two messages, the system one first, the user one
\* carrying the prompt as received
TwoMessages(r) ==
    LET messages == outbound[r][1].request.messages IN
    /\ Len(messages) = 2
    /\ messages[1].role = "system"
    /\ messages[2] = [role |-> "user", content |-> req[r].prompt]

\* C8 as stated: the system message is system_template as it is for a
\* request without a style, and system_with_style_template with its style
\* placeholder replaced by the style for a request with one.
C8_PlaceholderReplaced ==
    \A r \in Requests :
        outbound[r] # None =>
            /\ TwoMessages(r)
            /\ req[r].style = None =>
                  SystemMessage(r).content = config.system_template
            /\ (req[r].style # None /\ ContainsPlaceholder(StyleTemplate)) =>
                  SystemMessage(r).content =
                      ReplacePlaceholder(config.system_with_style_template, req[r].style[1])

\* C8 as amended: the system message is system_template as it is for a
\* request without a style; for a request with a style and a well-formed
\* style template it is that template with every style placeholder replaced
\* by the style and every doubled brace replaced by a single one.  It is the
\* first of exactly two messages; the second is the user message with the
\* prompt as received.
C8_SystemMessageRendered ==
    \A r \in Requests :
        /\ outbound[r] # None =>
              /\ TwoMessages(r)
              /\ req[r].style = None =>
                    SystemMessage(r).content = config.system_template
        /\ (Styled(r) /\ WellFormed(config.system_with_style_template)
                /\ ctx.openai_clients # <<>> /\ ~Returned(r)) =>
              /\ outbound[r] # None
              /\ SystemMessage(r).content =
                    Substituted(config.system_with_style_template, req[r].style[1])

C8_Witness ==
    \E r \in Requests :
        /\ outbound[r] # None
        /\ req[r].style = Some(<<"p">>)
        /\ ContainsPlaceholder(StyleTemplate)
        /\ HasBrace(SystemMessage(r).content)
        /\ req[r].prompt = Placeholder

====
